---- MODULE Spec2Model ----
(***************************************************************************)
(* The analysis orchestration pipeline of the competitor-analysis backend: *)
(* the in-process runner run_full_analysis_sync                            *)
(* (app/services/analysis_runner.py) and the Celery orchestrator           *)
(* run_full_analysis (app/tasks/analysis_tasks.py), the per-competitor     *)
(* steps they drive, the presence aggregator and the insight synthesizer,  *)
(* over the relational tables of app/models.                               *)
(*                                                                         *)
(* Spec is the two orchestrators; SpecTasks and SpecPresence are the step  *)
(* tasks called on their own; SpecCalls is the source adapter and the      *)
(* generate_insights task called on their own; SpecLive is start_analysis  *)
(* with the Celery worker; SpecBeside is two calls interleaved on one run; *)
(* SpecCatalog adds delete_competitor; SpecTwin is the two orchestrators   *)
(* on two like runs; SpecDates is collect_competitor_news over the dates   *)
(* the provider gives.                                                     *)
(*                                                                         *)
(* Conventions.  A nullable column holds NULL (the empty tuple) or <<v>>.  *)
(* Dates are whole days; sentiment scores are counted in tenths (8 is 0.8) *)
(* and an average is the reduced fraction <<numerator, denominator>> of    *)
(* tenths, so that 0.9 is <<9, 1>>.  A table is a bag of rows: the         *)
(* autoincrement id of a row is left out, two rows that agree on every     *)
(* other column are two copies of one bag element.                         *)
(***************************************************************************)
EXTENDS Integers, Sequences, FiniteSets, Bags, TLC

VARIABLES
    runs,          \* analysis_runs: run id -> row (exists = FALSE: no such row)
    links,         \* analysis_competitors: run id -> competitor ids, in link-id order
    comps,         \* competitors: competitor id -> row (exists = FALSE: no such row)
    mentions,      \* news_mentions
    webcontent,    \* web_content
    presence,      \* market_presence
    insights,      \* insights
    opportunities, \* differentiation_opportunities
    feed,          \* the news provider's answer for each competitor's name
    queue,         \* the broker: run ids of the run_full_analysis messages in flight
    last,          \* the last call of a collaborator made on its own: what it was given and gave back
    now,           \* datetime.utcnow(), in days; the calls of a behaviour lie within one day
    pc,            \* per orchestrator: the place it has reached
    prun,          \* per orchestrator: the analysis_run_id argument
    pdays,         \* per orchestrator: the local days_back
    pcomps,        \* per orchestrator: the local comp_ids
    idx,           \* per orchestrator: position of cid in comp_ids
    steps,         \* per orchestrator: the steps the current call has invoked
    outcome,       \* per orchestrator: which step outcomes the current call has seen
    result,        \* per orchestrator: the value the last call returned
    nexec          \* number of execute calls made so far

vars == <<runs, links, comps, mentions, webcontent, presence, insights,
          opportunities, feed, queue, last, now, pc, prun, pdays, pcomps, idx, steps,
          outcome, result, nexec>>

tables == <<mentions, webcontent, presence, insights, opportunities>>
locals == <<prun, pdays, pcomps, idx, steps, outcome, result>>

(***************************************************************************)
(* Bounds of the model.                                                    *)
(***************************************************************************)
MaxExec == 2        \* orchestrator calls in one behaviour of Spec
MaxTaskCalls == 5   \* step-task calls in one behaviour of SpecTasks
MaxCalls == 3       \* collaborator calls in one behaviour of SpecCalls
MaxNow == 1         \* days that pass in one behaviour of SpecBeside

(***************************************************************************)
(* Program constants.                                                      *)
(***************************************************************************)
DefaultDaysBack == 30
RisingThreshold == 5
StableThreshold == 2
VisibilityCap == 100
VisibilityFactor == 2

NULL == << >>
Some(x) == <<x>>

RunIds == {1, 2}
CompIds == {1, 2}
\* "sync" is run_full_analysis_sync, "celery" is run_full_analysis.
Procs == {"sync", "celery"}
PAGE_TYPES == <<"homepage", "pricing", "about", "features">>

\* The days_back entry of a run's parameters: absent, an integer, or null.
NoDays == [k |-> "absent", v |-> 0]
Days(n) == [k |-> "int", v |-> n]
NullDays == [k |-> "null", v |-> 0]

NoRun == [exists |-> FALSE, status |-> "none", started_at |-> NULL,
          completed_at |-> NULL, days_back |-> NoDays]
NoComp == [exists |-> FALSE, has_url |-> FALSE]
\* the operations of the collaborators that are called on their own
CallOps == {"search_competitor_news", "get_web_content", "generate_insights"}
\* the operation has not been called
NoCall == [called |-> FALSE, arg |-> NULL, given |-> NULL, raised |-> FALSE,
           value |-> NULL]

(***************************************************************************)
(* Articles as the news provider returns them.  The clock starts at day 0, *)
(* so an article of day -2 is two days old when the behaviour starts.      *)
(***************************************************************************)
Art(d, s) == [published_date |-> d, sentiment_score |-> s]
\* three recent articles, scored 0.8, 1.0 and unscored
FeedThree == <<Art(Some(-2), Some(8)), Art(Some(-2), Some(10)), Art(Some(-3), NULL)>>
\* one article inside a 30-day window and outside a 7-day one, one without a date
FeedOld == <<Art(Some(-10), Some(-5)), Art(NULL, Some(5))>>
FeedEmpty == << >>
\* one recent article, scored 0.5
FeedOne == <<Art(Some(-1), Some(5))>>
Feeds == {FeedEmpty, FeedThree, FeedOld}
TaskFeeds == {FeedOne, FeedThree, FeedOld}
Windows == {7, DefaultDaysBack}

(***************************************************************************)
(* Sums over the rows of a bag.                                            *)
(***************************************************************************)
RECURSIVE Copies(_, _)
Copies(B, S) ==
    IF S = {} THEN 0
    ELSE LET x == CHOOSE y \in S : TRUE IN B[x] + Copies(B, S \ {x})

RECURSIVE SentimentSum(_, _)
SentimentSum(B, S) ==
    IF S = {} THEN 0
    ELSE LET x == CHOOSE y \in S : TRUE
         IN B[x] * x.sentiment_score[1] + SentimentSum(B, S \ {x})

RECURSIVE GCD(_, _)
GCD(a, b) == IF b = 0 THEN a ELSE GCD(b, a % b)
Abs(n) == IF n < 0 THEN -n ELSE n
\* sum / count as a reduced fraction of tenths
Fraction(sum, count) ==
    LET g == GCD(Abs(sum), count) IN <<sum \div g, count \div g>>
Min(a, b) == IF a <= b THEN a ELSE b

RowsOf(B, r) == {x \in DOMAIN B : x.analysis_run_id = r}
RowsFor(B, c, r) == {x \in DOMAIN B : x.competitor_id = c /\ x.analysis_run_id = r}
AddRows(B, rows) == B (+) rows
\* the bag holding one copy of each element of a sequence of rows
RECURSIVE SeqToBag(_)
SeqToBag(s) ==
    IF s = << >> THEN EmptyBag ELSE SetToBag({Head(s)}) (+) SeqToBag(Tail(s))
DeleteWhere(B, S) == [x \in DOMAIN B \ S |-> B[x]]

(***************************************************************************)
(* _SyncNewsService.collect_competitor_news: the rows added for the        *)
(* provider's articles.                                                    *)
(***************************************************************************)
MentionOf(art, c, r) ==
    [competitor_id |-> c, analysis_run_id |-> r,
     published_date |-> art.published_date,
     sentiment_score |-> art.sentiment_score]
CollectCompetitorNews(articles, c, r) ==
    SeqToBag([i \in 1..Len(articles) |-> MentionOf(articles[i], c, r)])

(***************************************************************************)
(* _SyncNewsService.calculate_market_presence: the rows added (none when   *)
(* no mention of the competitor in the run is dated inside the window).    *)
(***************************************************************************)
InWindow(m, period_start, period_end) ==
    /\ m.published_date # NULL
    /\ m.published_date[1] >= period_start
    /\ m.published_date[1] <= period_end

\* a rising trend one mention late, a stable one one mention late
TrendDirectionStrict(mention_count) ==
    IF mention_count > RisingThreshold THEN "rising"
    ELSE IF mention_count > StableThreshold THEN "stable"
    ELSE "declining"

TrendDirection(mention_count) ==
    IF mention_count >= RisingThreshold THEN "rising"
    ELSE IF mention_count >= StableThreshold THEN "stable"
    ELSE "declining"

\* the cap forgotten
VisibilityScoreUncapped(mention_count) == mention_count * VisibilityFactor

VisibilityScore(mention_count) ==
    Min(VisibilityCap, mention_count * VisibilityFactor)

\* the unscored mentions counted in the denominator
SentimentAverageOverAll(M, found) ==
    LET scored == {m \in found : m.sentiment_score # NULL}
    IN  IF Copies(M, scored) # 0
        THEN Some(Fraction(SentimentSum(M, scored), Copies(M, found)))
        ELSE NULL

\* zero instead of no value when no mention is scored
SentimentAverageZeroDefault(M, found) ==
    LET scored == {m \in found : m.sentiment_score # NULL}
    IN  IF Copies(M, scored) # 0
        THEN Some(Fraction(SentimentSum(M, scored), Copies(M, scored)))
        ELSE Some(<<0, 1>>)

SentimentAverage(M, found) ==
    LET scored == {m \in found : m.sentiment_score # NULL}
        sentiment_sum == SentimentSum(M, scored)
        sentiment_count == Copies(M, scored)
    IN  IF sentiment_count # 0
        THEN Some(Fraction(sentiment_sum, sentiment_count))
        ELSE NULL

\* a row stored whether or not a mention was found
NothingToStoreNever(found) == FALSE

\* an upsert: nothing is appended once a summary is stored
NothingToStoreOnceStored(found) == found = {} \/ presence # EmptyBag

\* if not mentions: return
NothingToStore(found) == found = {}

CalculateMarketPresence(M, c, r, days_back, t) ==
    LET period_end == t
        period_start == period_end - days_back
        found == {m \in RowsFor(M, c, r) : InWindow(m, period_start, period_end)}
        mention_count == Copies(M, found)
    IN  IF NothingToStore(found) THEN EmptyBag
        ELSE SetToBag({[competitor_id |-> c, analysis_run_id |-> r,
                        mention_count |-> mention_count,
                        sentiment_average |-> SentimentAverage(M, found),
                        visibility_score |-> VisibilityScore(mention_count),
                        trend_direction |-> TrendDirection(mention_count),
                        period_start |-> period_start,
                        period_end |-> period_end]})

(***************************************************************************)
(* _SyncWebExtraction.extract_website_content: one row per page type.      *)
(***************************************************************************)
ExtractWebsiteContent(c, r) ==
    SeqToBag([i \in 1..Len(PAGE_TYPES) |->
        [competitor_id |-> c, analysis_run_id |-> r, page_type |-> PAGE_TYPES[i]]])

(***************************************************************************)
(* The text-generation provider's answers, as _call_llm_sync returns them: *)
(* text that json.loads rejects ("text"), JSON whose top-level value is    *)
(* not an object ("array"), or a JSON object whose "insights" and          *)
(* "differentiation_opportunities" arrays hold elements that give a title  *)
(* ("titled"), leave the key out ("untitled") or give null ("nulltitle").  *)
(***************************************************************************)
Unparsable == [kind |-> "text", insights |-> << >>, opps |-> << >>]
NotAnObject == [kind |-> "array", insights |-> << >>, opps |-> << >>]
Obj(ins, opps) == [kind |-> "object", insights |-> ins, opps |-> opps]
LLMOutputs == {Unparsable, NotAnObject, Obj(<< >>, << >>),
               Obj(<<"titled", "untitled">>, <<"titled">>),
               Obj(<<"titled", "nulltitle">>, <<"untitled">>)}

\* i.get("title", default): the default only when the key is left out
TitleOf(e, default) ==
    IF e = "untitled" THEN Some(default)
    ELSE IF e = "nulltitle" THEN NULL ELSE Some("given")
InsightOf(e, r) == [analysis_run_id |-> r, title |-> TitleOf(e, "Insight")]
OpportunityOf(e, r) == [analysis_run_id |-> r, title |-> TitleOf(e, "Opportunity")]

\* _SyncInsightsGenerator.generate_differentiation_insights: the provider is
\* called when the run and at least one linked competitor exist.
CallsProvider(r) ==
    /\ runs[r].exists
    /\ \E i \in 1..Len(links[r]) : comps[links[r][i]].exists
InsightRows(r, out) ==
    IF CallsProvider(r) /\ out.kind = "object"
    THEN SeqToBag([i \in 1..Len(out.insights) |-> InsightOf(out.insights[i], r)])
    ELSE EmptyBag
OpportunityRows(r, out) ==
    IF CallsProvider(r) /\ out.kind = "object"
    THEN SeqToBag([i \in 1..Len(out.opps) |-> OpportunityOf(out.opps[i], r)])
    ELSE EmptyBag

\* session.flush() of rows whose title column (nullable=False) is None
FlushRaises(rows) == \E x \in DOMAIN rows : x.title = NULL

\* What escapes generate_differentiation_insights: data.get on a value that
\* is not a dict (only JSONDecodeError is caught), and the flush.
SynthesisRaises(r, out) ==
    /\ CallsProvider(r)
    /\ \/ out.kind = "array"
       \/ FlushRaises(InsightRows(r, out))
       \/ FlushRaises(OpportunityRows(r, out))

(***************************************************************************)
(* AskNewsService, the source adapter.  A response of the news provider is *)
(* no client (credentials or SDK missing), an error of the call, an object *)
(* with as_string, a list, a dict with "articles", another dict, or        *)
(* anything else; a response of the chat endpoint is no client, an error,  *)
(* no chat endpoint, or a chat response.                                   *)
(***************************************************************************)
NewsResponse(kind, articles) == [kind |-> kind, articles |-> articles]
NewsResponses ==
    {NewsResponse("no_client", << >>), NewsResponse("error", << >>),
     NewsResponse("as_string", << >>), NewsResponse("list", FeedThree),
     NewsResponse("list", FeedEmpty), NewsResponse("articles", FeedOne),
     NewsResponse("dict", << >>), NewsResponse("other", << >>)}
ChatResponses == {"no_client", "error", "no_chat", "chat"}
Returned(v) == [raised |-> FALSE, value |-> v]
Raised == [raised |-> TRUE, value |-> NULL]
IsNumber(days_back) == days_back.k = "int"

\* the body of search_competitor_news inside its try
SearchBody(resp, days_back) ==
    IF resp.kind \in {"no_client", "error"} \/ ~IsNumber(days_back) THEN Raised
    ELSE IF resp.kind = "as_string" THEN Returned(<<Art(NULL, NULL)>>)
    ELSE IF resp.kind \in {"list", "articles"} THEN Returned(resp.articles)
    ELSE IF resp.kind = "dict" THEN Returned(<<Art(NULL, NULL)>>)
    ELSE Returned(<< >>)

\* the except clause left out
SearchCompetitorNewsUnguarded(resp, days_back) == SearchBody(resp, days_back)

\* AskNewsService.search_competitor_news: except Exception: return []
SearchCompetitorNews(resp, days_back) ==
    LET body == SearchBody(resp, days_back)
    IN  IF body.raised THEN Returned(<< >>) ELSE body

Page(content, error) == [content |-> content, error |-> error]
\* the body of get_web_content inside its try
WebBody(resp) ==
    IF resp \in {"no_client", "error"} THEN Raised
    ELSE IF resp = "chat" THEN Returned(Page("text", FALSE))
    ELSE Returned(Page("", FALSE))

\* AskNewsService.get_web_content: except Exception: content "", "error" set
GetWebContent(resp) ==
    LET body == WebBody(resp)
    IN  IF body.raised THEN Returned(Page("", TRUE)) ELSE body

(***************************************************************************)
(* The orchestrators.                                                      *)
(***************************************************************************)
Ret(status) == [status |-> status]
NoOutcome == [ok |-> FALSE, failed |-> FALSE, fault |-> FALSE]
\* a step returned (ok) or raised (failed); the driver itself raised (fault)
Seen(p, failed) ==
    [outcome[p] EXCEPT !.ok = @ \/ ~failed, !.failed = @ \/ failed]
Logged(p, step, c, days) ==
    Append(steps[p], [step |-> step, cid |-> c, days |-> days])
Cid(p) == pcomps[p][idx[p]]

\* (run.parameters or {}).get("days_back", 30): the default stands in for a
\* key that is left out, and for nothing else
ResolveDaysBack(param) == IF param.k = "absent" THEN Days(DefaultDaysBack) ELSE param

\* collect_competitor_news is called without days_back by run_full_analysis
CollectWindow(p) == IF p = "sync" THEN pdays[p] ELSE Days(DefaultDaysBack)

\* timedelta(days=days_back) in calculate_market_presence raises TypeError
\* when days_back is not a number
WindowRaises(days_back) == ~IsNumber(days_back)

\* What run_full_analysis_sync returns after its handler ran, and what
\* run_full_analysis returns on every path that found the run.
FaultReturn(p) == IF p = "sync" THEN Ret("failed") ELSE Ret("completed")

\* A call of the orchestrator with analysis_run_id = r.
Invoke(p, r) ==
    /\ pc[p] = "idle"
    /\ nexec < MaxExec
    /\ nexec' = nexec + 1
    /\ pc' = [pc EXCEPT ![p] = "begin"]
    /\ prun' = [prun EXCEPT ![p] = r]
    /\ UNCHANGED <<runs, links, comps, tables, feed, last, now, pdays, pcomps, idx,
                   steps, outcome, result>>

\* The call has returned: its session is closed and its locals are gone.
Exit(p) ==
    /\ pc[p] = "done"
    /\ pc' = [pc EXCEPT ![p] = "idle"]
    /\ prun' = [prun EXCEPT ![p] = 1]
    /\ pcomps' = [pcomps EXCEPT ![p] = << >>]
    /\ idx' = [idx EXCEPT ![p] = 1]
    /\ pdays' = [pdays EXCEPT ![p] = NoDays]
    /\ steps' = [steps EXCEPT ![p] = << >>]
    /\ outcome' = [outcome EXCEPT ![p] = NoOutcome]
    /\ result' = [result EXCEPT ![p] = Ret("none")]
    /\ UNCHANGED <<runs, links, comps, tables, feed, queue, last, now, nexec>>

\* One orchestrator at a time.
InvokeAlone(p, r) ==
    /\ \A q \in Procs : pc[q] = "idle"
    /\ Invoke(p, r)
    /\ UNCHANGED queue

\* the early return forgotten: the call goes on without a run
BeginNotFoundGoesOn(p) ==
    /\ pc[p] = "begin"
    /\ ~runs[prun[p]].exists
    /\ pc' = [pc EXCEPT ![p] = "load"]
    /\ UNCHANGED <<runs, links, comps, tables, feed, queue, last, now, locals, nexec>>

\* session.get finds no run: the not-found result.
BeginNotFound(p) ==
    /\ pc[p] = "begin"
    /\ ~runs[prun[p]].exists
    /\ pc' = [pc EXCEPT ![p] = "done"]
    /\ result' = [result EXCEPT ![p] = Ret("not_found")]
    /\ UNCHANGED <<runs, links, comps, tables, feed, queue, last, now, prun, pdays, pcomps,
                   idx, steps, outcome, nexec>>

\* a run that is already in progress is turned away
BeginRejectsInProgress(p) ==
    /\ pc[p] = "begin"
    /\ runs[prun[p]].exists
    /\ runs' = IF runs[prun[p]].status = "in_progress" THEN runs
               ELSE [runs EXCEPT ![prun[p]].status = "in_progress",
                                 ![prun[p]].started_at = Some(now)]
    /\ pc' = [pc EXCEPT ![p] = IF runs[prun[p]].status = "in_progress"
                               THEN "done" ELSE "load"]
    /\ UNCHANGED <<links, comps, tables, feed, queue, last, now, locals, nexec>>

\* status = "in_progress", started_at = utcnow(), commit.
Begin(p) ==
    /\ pc[p] = "begin"
    /\ runs[prun[p]].exists
    /\ runs' = [runs EXCEPT ![prun[p]].status = "in_progress",
                            ![prun[p]].started_at = Some(now)]
    /\ pc' = [pc EXCEPT ![p] = "load"]
    /\ UNCHANGED <<links, comps, tables, feed, queue, last, now, locals, nexec>>

\* The outer except clause: rollback, and the run, if it is there, is failed.
Handler(p) ==
    /\ runs' = IF runs[prun[p]].exists
               THEN [runs EXCEPT ![prun[p]].status = "failed"]
               ELSE runs
    /\ pc' = [pc EXCEPT ![p] = "done"]
    /\ result' = [result EXCEPT ![p] = FaultReturn(p)]
    /\ outcome' = [outcome EXCEPT ![p].fault = TRUE]
    /\ UNCHANGED <<links, comps, tables, feed, queue, last, now, prun, pdays, pcomps, idx,
                   steps, nexec>>

\* A statement of the driver itself raises (the database is locked or away).
DriverFault(p) ==
    /\ pc[p] \in {"begin", "load", "finish"}
    /\ pc[p] = "begin" => runs[prun[p]].exists
    /\ Handler(p)

\* days_back and comp_ids are read; the expired run row is reloaded first, and
\* a row that is gone raises ObjectDeletedError.
LoadRunGone(p) ==
    /\ pc[p] = "load"
    /\ ~runs[prun[p]].exists
    /\ Handler(p)

Load(p) ==
    /\ pc[p] = "load"
    /\ runs[prun[p]].exists
    /\ pdays' = [pdays EXCEPT ![p] = ResolveDaysBack(runs[prun[p]].days_back)]
    /\ pcomps' = [pcomps EXCEPT ![p] = links[prun[p]]]
    /\ idx' = [idx EXCEPT ![p] = 1]
    /\ pc' = [pc EXCEPT ![p] = IF links[prun[p]] = << >> THEN "synth" ELSE "collect"]
    /\ UNCHANGED <<runs, links, comps, tables, feed, queue, last, now, prun, steps, outcome,
                   result, nexec>>

\* the exception leaves the loop
AfterFailureAborts(next) == "finish"

\* Where a per-competitor step goes when it raises: the except clause logs,
\* rolls back, and the next statement runs.
AfterFailure(next) == next

\* the mentions committed before the presence is computed over them
CollectKeepsMentions(p, failed) ==
    /\ pc[p] = "collect"
    /\ LET c == Cid(p)
           r == prun[p]
           added == AddRows(mentions, CollectCompetitorNews(feed[c], c, r))
           raised == failed \/ WindowRaises(CollectWindow(p))
       IN  /\ mentions' = IF failed THEN mentions ELSE added
           /\ presence' = IF raised THEN presence
                          ELSE AddRows(presence,
                                 CalculateMarketPresence(added, c, r, CollectWindow(p).v, now))
           /\ steps' = [steps EXCEPT ![p] = Logged(p, "collect_news", c, CollectWindow(p))]
           /\ outcome' = [outcome EXCEPT ![p] = Seen(p, raised)]
           /\ pc' = [pc EXCEPT ![p] = IF raised THEN AfterFailure("extract") ELSE "extract"]
    /\ UNCHANGED <<runs, links, comps, webcontent, insights, opportunities, feed, queue, last,
                   now, prun, pdays, pcomps, idx, result, nexec>>

\* Step 1 of a competitor: the provider's articles become mentions, and the
\* presence of the competitor is computed over them.
Collect(p, failed) ==
    /\ pc[p] = "collect"
    /\ LET c == Cid(p)
           r == prun[p]
           added == AddRows(mentions, CollectCompetitorNews(feed[c], c, r))
           raised == failed \/ WindowRaises(CollectWindow(p))
       IN  /\ mentions' = IF raised THEN mentions ELSE added
           /\ presence' = IF raised THEN presence
                          ELSE AddRows(presence,
                                 CalculateMarketPresence(added, c, r, CollectWindow(p).v, now))
           /\ steps' = [steps EXCEPT ![p] = Logged(p, "collect_news", c, CollectWindow(p))]
           /\ outcome' = [outcome EXCEPT ![p] = Seen(p, raised)]
           /\ pc' = [pc EXCEPT ![p] = IF raised THEN AfterFailure("extract") ELSE "extract"]
    /\ UNCHANGED <<runs, links, comps, webcontent, insights, opportunities, feed, queue, last,
                   now, prun, pdays, pcomps, idx, result, nexec>>

\* the test of the URL forgotten
SkipsExtractionUnknownOnly(c) == ~comps[c].exists

\* if not comp or not comp.website_url: return
SkipsExtraction(c) == ~comps[c].exists \/ ~comps[c].has_url

\* Step 2 of a competitor: the four pages of its website, when it has one.
Extract(p, failed) ==
    /\ pc[p] = "extract"
    /\ LET c == Cid(p)
           r == prun[p]
       IN  /\ webcontent' = IF failed \/ SkipsExtraction(c)
                            THEN webcontent
                            ELSE AddRows(webcontent, ExtractWebsiteContent(c, r))
           /\ steps' = [steps EXCEPT ![p] = Logged(p, "extract_web_content", c, NoDays)]
    /\ outcome' = [outcome EXCEPT ![p] = Seen(p, failed)]
    /\ pc' = [pc EXCEPT ![p] = IF failed THEN AfterFailure("compute") ELSE "compute"]
    /\ UNCHANGED <<runs, links, comps, mentions, presence, insights, opportunities,
                   feed, queue, last, now, prun, pdays, pcomps, idx, result, nexec>>

\* the synthesis called inside the loop, after the first competitor
ComputeThenSynth(p, failed) ==
    /\ pc[p] = "compute"
    /\ presence' = IF failed \/ WindowRaises(pdays[p]) THEN presence
                   ELSE AddRows(presence,
                          CalculateMarketPresence(mentions, Cid(p), prun[p], pdays[p].v, now))
    /\ steps' = [steps EXCEPT ![p] = Logged(p, "compute_presence", Cid(p), pdays[p])]
    /\ pc' = [pc EXCEPT ![p] = "synth"]
    /\ outcome' = [outcome EXCEPT ![p] = Seen(p, failed \/ WindowRaises(pdays[p]))]
    /\ UNCHANGED <<runs, links, comps, mentions, webcontent, insights, opportunities,
                   feed, queue, last, now, prun, pdays, pcomps, idx, result, nexec>>

\* Step 3 of a competitor: its presence over the run's window; then the next
\* competitor, or the synthesis after the last one.
Compute(p, failed) ==
    /\ pc[p] = "compute"
    /\ LET c == Cid(p)
           r == prun[p]
           next == IF idx[p] < Len(pcomps[p]) THEN "collect" ELSE "synth"
           raised == failed \/ WindowRaises(pdays[p])
       IN  /\ presence' = IF raised THEN presence
                          ELSE AddRows(presence,
                                 CalculateMarketPresence(mentions, c, r, pdays[p].v, now))
           /\ steps' = [steps EXCEPT ![p] = Logged(p, "compute_presence", c, pdays[p])]
           /\ pc' = [pc EXCEPT ![p] = IF raised THEN AfterFailure(next) ELSE next]
           /\ idx' = [idx EXCEPT ![p] = IF next = "collect" THEN idx[p] + 1 ELSE idx[p]]
           /\ outcome' = [outcome EXCEPT ![p] = Seen(p, raised)]
    /\ UNCHANGED <<runs, links, comps, mentions, webcontent, insights, opportunities,
                   feed, queue, last, now, prun, pdays, pcomps, result, nexec>>

\* the except clause of the step marks the run failed
SynthFailsRun(p, out, failed) ==
    /\ pc[p] = "synth"
    /\ LET raised == failed \/ SynthesisRaises(prun[p], out)
       IN  /\ insights' = IF raised THEN insights
                          ELSE AddRows(insights, InsightRows(prun[p], out))
           /\ opportunities' = IF raised THEN opportunities
                               ELSE AddRows(opportunities, OpportunityRows(prun[p], out))
           /\ outcome' = [outcome EXCEPT ![p] = Seen(p, raised)]
           /\ runs' = IF raised /\ runs[prun[p]].exists
                      THEN [runs EXCEPT ![prun[p]].status = "failed"]
                      ELSE runs
    /\ steps' = [steps EXCEPT ![p] = Logged(p, "synthesize_insights", 0, NoDays)]
    /\ pc' = [pc EXCEPT ![p] = "finish"]
    /\ UNCHANGED <<links, comps, mentions, webcontent, presence, feed, queue, last, now,
                   prun, pdays, pcomps, idx, result, nexec>>

\* The run-wide step: the provider's answer becomes insights and opportunities;
\* when the step raises, the rollback leaves none of them.
Synth(p, out, failed) ==
    /\ pc[p] = "synth"
    /\ LET raised == failed \/ SynthesisRaises(prun[p], out)
       IN  /\ insights' = IF raised THEN insights
                          ELSE AddRows(insights, InsightRows(prun[p], out))
           /\ opportunities' = IF raised THEN opportunities
                               ELSE AddRows(opportunities, OpportunityRows(prun[p], out))
           /\ outcome' = [outcome EXCEPT ![p] = Seen(p, raised)]
    /\ steps' = [steps EXCEPT ![p] = Logged(p, "synthesize_insights", 0, NoDays)]
    /\ pc' = [pc EXCEPT ![p] = "finish"]
    /\ UNCHANGED <<runs, links, comps, mentions, webcontent, presence, feed, queue, last, now,
                   prun, pdays, pcomps, idx, result, nexec>>

\* a run with a failed step is marked failed
FinishStrict(p) ==
    /\ pc[p] = "finish"
    /\ runs' = IF runs[prun[p]].exists
               THEN [runs EXCEPT ![prun[p]].status =
                                     IF outcome[p].failed THEN "failed" ELSE "completed",
                                 ![prun[p]].completed_at = Some(now)]
               ELSE runs
    /\ pc' = [pc EXCEPT ![p] = "done"]
    /\ result' = [result EXCEPT ![p] = Ret("completed")]
    /\ UNCHANGED <<links, comps, tables, feed, queue, last, now, prun, pdays, pcomps, idx,
                   steps, outcome, nexec>>

\* The run, if it is still there, is completed; "completed" is returned.
Finish(p) ==
    /\ pc[p] = "finish"
    /\ runs' = IF runs[prun[p]].exists
               THEN [runs EXCEPT ![prun[p]].status = "completed",
                                 ![prun[p]].completed_at = Some(now)]
               ELSE runs
    /\ pc' = [pc EXCEPT ![p] = "done"]
    /\ result' = [result EXCEPT ![p] = Ret("completed")]
    /\ UNCHANGED <<links, comps, tables, feed, queue, last, now, prun, pdays, pcomps, idx,
                   steps, outcome, nexec>>

(***************************************************************************)
(* The environment.                                                        *)
(***************************************************************************)
\* The run row is deleted; its links and its facts go with it
\* (cascade="all, delete-orphan").
RunVanishes(r) ==
    /\ runs[r].exists
    /\ runs' = [runs EXCEPT ![r] = NoRun]
    /\ links' = [links EXCEPT ![r] = << >>]
    /\ mentions' = DeleteWhere(mentions, RowsOf(mentions, r))
    /\ webcontent' = DeleteWhere(webcontent, RowsOf(webcontent, r))
    /\ presence' = DeleteWhere(presence, RowsOf(presence, r))
    /\ insights' = DeleteWhere(insights, RowsOf(insights, r))
    /\ opportunities' = DeleteWhere(opportunities, RowsOf(opportunities, r))
    /\ UNCHANGED <<comps, feed, queue, last, now, pc, locals, nexec>>

(***************************************************************************)
(* The state after start_analysis has created run 1, pending, linked to    *)
(* competitors 1 and 2; no run 2 exists.                                   *)
(***************************************************************************)
PendingRun(d) == [exists |-> TRUE, status |-> "pending", started_at |-> NULL,
                  completed_at |-> NULL, days_back |-> d]

InitTables ==
    /\ mentions = EmptyBag
    /\ webcontent = EmptyBag
    /\ presence = EmptyBag
    /\ insights = EmptyBag
    /\ opportunities = EmptyBag

InitProcs ==
    /\ pc = [p \in Procs |-> "idle"]
    /\ prun = [p \in Procs |-> 1]
    /\ pdays = [p \in Procs |-> NoDays]
    /\ pcomps = [p \in Procs |-> << >>]
    /\ idx = [p \in Procs |-> 1]
    /\ steps = [p \in Procs |-> << >>]
    /\ outcome = [p \in Procs |-> NoOutcome]
    /\ result = [p \in Procs |-> Ret("none")]
    /\ nexec = 0
    /\ queue = << >>
    /\ last = [op \in CallOps |-> NoCall]

Init ==
    /\ \E d \in {Days(7), NoDays, NullDays} :
          runs = [r \in RunIds |-> IF r = 1 THEN PendingRun(d) ELSE NoRun]
    /\ links = [r \in RunIds |-> IF r = 1 THEN <<1, 2>> ELSE << >>]
    /\ comps = [c \in CompIds |-> [exists |-> TRUE, has_url |-> c = 1]]
    /\ feed \in {f \in [CompIds -> Feeds] : f[1] # FeedOld /\ f[2] # FeedThree}
    /\ now = 0
    /\ InitTables
    /\ InitProcs

Next ==
    \/ \E p \in Procs, r \in RunIds : InvokeAlone(p, r)
    \/ \E p \in Procs : BeginNotFound(p)
    \/ \E p \in Procs : Begin(p)
    \/ \E p \in Procs : DriverFault(p)
    \/ \E p \in Procs : LoadRunGone(p)
    \/ \E p \in Procs : Load(p)
    \/ \E p \in Procs, failed \in BOOLEAN : Collect(p, failed)
    \/ \E p \in Procs, failed \in BOOLEAN : Extract(p, failed)
    \/ \E p \in Procs, failed \in BOOLEAN : Compute(p, failed)
    \/ \E p \in Procs, out \in LLMOutputs, failed \in BOOLEAN : Synth(p, out, failed)
    \/ \E p \in Procs : Finish(p)
    \/ \E p \in Procs : Exit(p)
    \/ \E r \in RunIds : RunVanishes(r)

Spec == Init /\ [][Next]_vars

(***************************************************************************)
(* The step tasks called on their own (each is a registered Celery task):  *)
(* collect_competitor_news and calculate_market_metrics, with the caller's *)
(* arguments, on the pending run 1.                                        *)
(***************************************************************************)
CollectTask(c, r, articles, days_back) ==
    /\ nexec < MaxTaskCalls
    /\ nexec' = nexec + 1
    /\ LET added == AddRows(mentions, CollectCompetitorNews(articles, c, r))
       IN  /\ mentions' = added
           /\ presence' = AddRows(presence,
                             CalculateMarketPresence(added, c, r, days_back, now))
    /\ UNCHANGED <<runs, links, comps, webcontent, insights, opportunities, feed, queue, last,
                   now, pc, locals>>

MetricsTask(c, r, days_back) ==
    /\ nexec < MaxTaskCalls
    /\ nexec' = nexec + 1
    /\ presence' = AddRows(presence,
                      CalculateMarketPresence(mentions, c, r, days_back, now))
    /\ UNCHANGED <<runs, links, comps, mentions, webcontent, insights,
                   opportunities, feed, queue, last, now, pc, locals>>

InitTasks ==
    /\ runs = [r \in RunIds |-> IF r = 1 THEN PendingRun(NoDays) ELSE NoRun]
    /\ links = [r \in RunIds |-> IF r = 1 THEN <<1, 2>> ELSE << >>]
    /\ comps = [c \in CompIds |-> [exists |-> TRUE, has_url |-> c = 1]]
    /\ feed = [c \in CompIds |-> FeedEmpty]
    /\ now = 0
    /\ InitTables
    /\ InitProcs

NextTasks ==
    \/ \E c \in CompIds, a \in TaskFeeds, d \in Windows : CollectTask(c, 1, a, d)
    \/ \E c \in CompIds, d \in Windows : MetricsTask(c, 1, d)

SpecTasks == InitTasks /\ [][NextTasks]_vars

(***************************************************************************)
(* calculate_market_metrics called on its own over mentions that earlier   *)
(* collect calls have stored for run 1 and that no longer change.  The     *)
(* stored mentions of a competitor are one of five collections.            *)
(***************************************************************************)
PresenceWindows == {1, 7, DefaultDaysBack}
Stored(c, d, s, n) == MentionOf(Art(d, s), c, 1) :> n
\* 1, 2 and 5 mentions inside the windows of 1, 7 and 30 days
StoredSteps(c) ==
    Stored(c, Some(-1), Some(5), 1) (+) Stored(c, Some(-5), NULL, 1)
        (+) Stored(c, Some(-10), Some(-5), 3)
\* 50 mentions inside the windows of 1 and 7 days, 1000 inside the one of 30
StoredBulk(c) ==
    Stored(c, Some(-1), Some(8), 50) (+) Stored(c, Some(-10), Some(10), 950)
\* scores 0.5, null, -0.5, null, and an undated mention scored 1.0
StoredMixed(c) ==
    Stored(c, Some(-1), Some(5), 1) (+) Stored(c, Some(-1), NULL, 2)
        (+) Stored(c, Some(-1), Some(-5), 1) (+) Stored(c, NULL, Some(10), 1)
\* two mentions, neither scored
StoredUnscored(c) == Stored(c, Some(-1), NULL, 2)
StoredMentions(c) ==
    {StoredSteps(c), StoredBulk(c), StoredMixed(c), StoredUnscored(c), EmptyBag}

InitPresence ==
    /\ runs = [r \in RunIds |-> IF r = 1 THEN PendingRun(NoDays) ELSE NoRun]
    /\ links = [r \in RunIds |-> IF r = 1 THEN <<1, 2>> ELSE << >>]
    /\ comps = [c \in CompIds |-> [exists |-> TRUE, has_url |-> c = 1]]
    /\ feed = [c \in CompIds |-> FeedEmpty]
    /\ now = 0
    /\ \E m1 \in StoredMentions(1), m2 \in StoredMentions(2) : mentions = m1 (+) m2
    /\ webcontent = EmptyBag
    /\ presence = EmptyBag
    /\ insights = EmptyBag
    /\ opportunities = EmptyBag
    /\ InitProcs

NextPresence ==
    \E c \in CompIds, d \in PresenceWindows : MetricsTask(c, 1, d)

SpecPresence == InitPresence /\ [][NextPresence]_vars

(***************************************************************************)
(* The collaborators called on their own: the two operations of the source *)
(* adapter and the generate_insights task, each with the response its      *)
(* provider gives to that call.                                            *)
(***************************************************************************)
Called(arg, given, ret) ==
    [called |-> TRUE, arg |-> arg, given |-> given, raised |-> ret.raised,
     value |-> ret.value]

SearchNewsCall(resp, days_back) ==
    /\ nexec < MaxCalls
    /\ nexec' = nexec + 1
    /\ last' = [last EXCEPT !["search_competitor_news"] =
                    Called(days_back, resp, SearchCompetitorNews(resp, days_back))]
    /\ UNCHANGED <<runs, links, comps, tables, feed, queue, now, pc, locals>>

WebContentCall(resp) ==
    /\ nexec < MaxCalls
    /\ nexec' = nexec + 1
    /\ last' = [last EXCEPT !["get_web_content"] =
                    Called(NULL, resp, GetWebContent(resp))]
    /\ UNCHANGED <<runs, links, comps, tables, feed, queue, now, pc, locals>>

\* generate_insights: the rows are committed when the generator returns, and
\* the session is closed without a commit when it raises.
GenerateInsightsTask(r, out) ==
    /\ nexec < MaxCalls
    /\ nexec' = nexec + 1
    /\ LET raised == SynthesisRaises(r, out)
       IN  /\ insights' = IF raised THEN insights
                          ELSE AddRows(insights, InsightRows(r, out))
           /\ opportunities' = IF raised THEN opportunities
                               ELSE AddRows(opportunities, OpportunityRows(r, out))
           /\ last' = [last EXCEPT !["generate_insights"] =
                           Called(r, out, [raised |-> raised, value |-> NULL])]
    /\ UNCHANGED <<runs, links, comps, mentions, webcontent, presence, feed,
                   queue, now, pc, locals>>

\* run 1 is pending and linked to competitors 1 and 2, which both have a row
\* or both have none (start_analysis does not look the ids up)
InitCalls ==
    /\ runs = [r \in RunIds |-> IF r = 1 THEN PendingRun(NoDays) ELSE NoRun]
    /\ links = [r \in RunIds |-> IF r = 1 THEN <<1, 2>> ELSE << >>]
    /\ \E known \in BOOLEAN :
          comps = [c \in CompIds |-> [exists |-> known, has_url |-> known /\ c = 1]]
    /\ feed = [c \in CompIds |-> FeedEmpty]
    /\ now = 0
    /\ InitTables
    /\ InitProcs

NextCalls ==
    \/ \E resp \in NewsResponses, d \in {Days(7), NullDays} : SearchNewsCall(resp, d)
    \/ \E resp \in ChatResponses : WebContentCall(resp)
    \/ \E r \in RunIds, out \in LLMOutputs : GenerateInsightsTask(r, out)

SpecCalls == InitCalls /\ [][NextCalls]_vars

(***************************************************************************)
(* start_analysis and the Celery worker.  Runs are created by the API,     *)
(* which has no operation that deletes one; the worker takes the messages  *)
(* of the broker one at a time and runs run_full_analysis on each.         *)
(***************************************************************************)
\* The run is created pending with a link per requested competitor id, and
\* run_full_analysis.delay either puts a message on the broker or raises
\* (the broker is away), which is logged and nothing more.
StartAnalysis(r, competitor_ids, d, enqueued) ==
    /\ ~runs[r].exists
    /\ r = 1 + Cardinality({x \in RunIds : runs[x].exists})
    /\ runs' = [runs EXCEPT ![r] = PendingRun(d)]
    /\ links' = [links EXCEPT ![r] = competitor_ids]
    /\ queue' = IF enqueued THEN Append(queue, r) ELSE queue
    /\ UNCHANGED <<comps, tables, feed, last, now, pc, locals, nexec>>

\* The worker takes the oldest message and calls run_full_analysis.
Deliver ==
    /\ queue # << >>
    /\ Invoke("celery", Head(queue))
    /\ queue' = Tail(queue)

InitLive ==
    /\ runs = [r \in RunIds |-> NoRun]
    /\ links = [r \in RunIds |-> << >>]
    /\ comps = [c \in CompIds |-> [exists |-> TRUE, has_url |-> c = 1]]
    /\ feed = [c \in CompIds |-> IF c = 1 THEN FeedThree ELSE FeedEmpty]
    /\ now = 0
    /\ InitTables
    /\ InitProcs

\* a step of the worker process
WorkerStep ==
    \/ Deliver
    \/ Begin("celery")
    \/ DriverFault("celery")
    \/ Load("celery")
    \/ \E failed \in BOOLEAN : Collect("celery", failed)
    \/ \E failed \in BOOLEAN : Extract("celery", failed)
    \/ \E failed \in BOOLEAN : Compute("celery", failed)
    \/ \E out \in LLMOutputs, failed \in BOOLEAN : Synth("celery", out, failed)
    \/ Finish("celery")
    \/ Exit("celery")

NextLive ==
    \/ \E r \in RunIds, cs \in {<<1>>, <<1, 2>>}, d \in {Days(7), NoDays},
          enqueued \in BOOLEAN : StartAnalysis(r, cs, d, enqueued)
    \/ WorkerStep

\* a running worker does not stop
SpecLive == InitLive /\ [][NextLive]_vars /\ WF_vars(WorkerStep)

(***************************************************************************)
(* Two calls on one run at the same time: the worker runs run_full_analysis *)
(* on the message of start_analysis while run_full_analysis_sync is called *)
(* in another process.  Each call has its own session, each step commits,  *)
(* and nothing in either orchestrator looks at the status it finds.  Each  *)
(* orchestrator is called once, and the clock moves between the steps.     *)
(***************************************************************************)
InvokeBeside(p, r) ==
    /\ Invoke(p, r)
    /\ UNCHANGED queue

\* a day passes
Tick ==
    /\ now < MaxNow
    /\ now' = now + 1
    /\ UNCHANGED <<runs, links, comps, tables, feed, queue, last, pc, locals, nexec>>

InitBeside ==
    /\ \E d \in {Days(7), NoDays} :
          runs = [r \in RunIds |-> IF r = 1 THEN PendingRun(d) ELSE NoRun]
    /\ links = [r \in RunIds |-> IF r = 1 THEN <<1, 2>> ELSE << >>]
    /\ comps = [c \in CompIds |-> [exists |-> TRUE, has_url |-> c = 1]]
    /\ feed = [c \in CompIds |-> IF c = 1 THEN FeedThree ELSE FeedOne]
    /\ now = 0
    /\ InitTables
    /\ InitProcs

NextBeside ==
    \/ \E p \in Procs : InvokeBeside(p, 1)
    \/ \E p \in Procs : Begin(p)
    \/ \E p \in Procs : Load(p)
    \/ \E p \in Procs, failed \in BOOLEAN : Collect(p, failed)
    \/ \E p \in Procs : Extract(p, FALSE)
    \/ \E p \in Procs : Compute(p, FALSE)
    \/ \E p \in Procs : Synth(p, Obj(<<"titled", "untitled">>, <<"titled">>), FALSE)
    \/ \E p \in Procs : Finish(p)
    \/ Tick

SpecBeside == InitBeside /\ [][NextBeside]_vars

(***************************************************************************)
(* The competitor catalogue beside the runs: start_analysis links a run to *)
(* the competitor ids it is given, which it does not look up (SQLite does  *)
(* not enforce the foreign keys), delete_competitor removes a competitor,  *)
(* and the worker runs run_full_analysis.  Competitor 1 has a row,         *)
(* competitor 2 has none: its name is looked up as "Unknown", and feed[2]  *)
(* is the provider's answer for that name.                                 *)
(***************************************************************************)
Without(s, c) == SelectSeq(s, LAMBDA x : x # c)
OfCompetitor(B, c) == {x \in DOMAIN B : x.competitor_id = c}

\* session.delete(competitor): the rows of its relationships go with it
\* (cascade="all, delete-orphan"): links, mentions, pages, presence.
DeleteCompetitor(c) ==
    /\ comps[c].exists
    /\ comps' = [comps EXCEPT ![c] = NoComp]
    /\ links' = [r \in RunIds |-> Without(links[r], c)]
    /\ mentions' = DeleteWhere(mentions, OfCompetitor(mentions, c))
    /\ webcontent' = DeleteWhere(webcontent, OfCompetitor(webcontent, c))
    /\ presence' = DeleteWhere(presence, OfCompetitor(presence, c))
    /\ UNCHANGED <<runs, insights, opportunities, feed, queue, last, now, pc,
                   locals, nexec>>

InitCatalog ==
    /\ runs = [r \in RunIds |-> NoRun]
    /\ links = [r \in RunIds |-> << >>]
    /\ comps = [c \in CompIds |-> IF c = 1 THEN [exists |-> TRUE, has_url |-> TRUE]
                                   ELSE NoComp]
    /\ feed = [c \in CompIds |-> IF c = 1 THEN FeedThree ELSE FeedOne]
    /\ now = 0
    /\ InitTables
    /\ InitProcs

NextCatalog ==
    \/ \E r \in RunIds, cs \in {<<1>>, <<2>>, <<1, 2>>} :
          StartAnalysis(r, cs, NoDays, TRUE)
    \/ \E c \in CompIds : DeleteCompetitor(c)
    \/ Deliver
    \/ Begin("celery")
    \/ Load("celery")
    \/ Collect("celery", FALSE)
    \/ Extract("celery", FALSE)
    \/ Compute("celery", FALSE)
    \/ Synth("celery", Obj(<<"titled", "untitled">>, <<"titled">>), FALSE)
    \/ Finish("celery")
    \/ Exit("celery")

SpecCatalog == InitCatalog /\ [][NextCatalog]_vars

(***************************************************************************)
(* The two orchestrators side by side on two runs that start_analysis      *)
(* created with the same parameters and the same competitor ids:           *)
(* run_full_analysis_sync is called on run 1 and run_full_analysis on run  *)
(* 2.  The providers behave alike for both: the news provider answers each *)
(* name with the same articles, the text provider gives the same answer,   *)
(* and nothing else raises.                                                *)
(***************************************************************************)
TwinRun(p) == IF p = "sync" THEN 1 ELSE 2
TwinAnswer == Obj(<<"titled", "untitled">>, <<"titled">>)

InitTwin ==
    /\ \E d \in {Days(7), NoDays, NullDays} : runs = [r \in RunIds |-> PendingRun(d)]
    /\ links = [r \in RunIds |-> <<1, 2>>]
    /\ comps = [c \in CompIds |-> [exists |-> TRUE, has_url |-> c = 1]]
    /\ feed \in [CompIds -> Feeds]
    /\ now = 0
    /\ InitTables
    /\ InitProcs

NextTwin ==
    \/ \E p \in Procs : InvokeBeside(p, TwinRun(p))
    \/ \E p \in Procs : Begin(p)
    \/ \E p \in Procs : Load(p)
    \/ \E p \in Procs : Collect(p, FALSE)
    \/ \E p \in Procs : Extract(p, FALSE)
    \/ \E p \in Procs : Compute(p, FALSE)
    \/ \E p \in Procs : Synth(p, TwinAnswer, FALSE)
    \/ \E p \in Procs : Finish(p)

SpecTwin == InitTwin /\ [][NextTwin]_vars

(***************************************************************************)
(* The published date of an article as the provider gives it: nothing, a   *)
(* string that dateutil parses to a day, a string it rejects, or a         *)
(* datetime.  collect_competitor_news reads it into the published_date of  *)
(* the mention.                                                            *)
(***************************************************************************)
NoDate == [k |-> "none", v |-> 0]
BadDate == [k |-> "text", v |-> 0]
DateStr(d) == [k |-> "iso", v |-> d]
DateObj(d) == [k |-> "datetime", v |-> d]
RawArt(pub, s) == [pub |-> pub, sentiment_score |-> s]

\* an unparsable date read as the time of the call
ParsePublishedAsNow(pub) ==
    IF pub.k \in {"iso", "datetime"} THEN Some(pub.v)
    ELSE IF pub.k = "text" THEN Some(now) ELSE NULL

\* isinstance(pub, str): parse, except Exception: pub = None
ParsePublished(pub) ==
    IF pub.k = "iso" THEN Some(pub.v)
    ELSE IF pub.k = "text" THEN NULL
    ELSE IF pub.k = "datetime" THEN Some(pub.v)
    ELSE NULL

ReadArticles(raw) ==
    [i \in 1..Len(raw) |-> Art(ParsePublished(raw[i].pub), raw[i].sentiment_score)]

\* two articles without a usable date
RawUndated == <<RawArt(NoDate, Some(5)), RawArt(BadDate, NULL)>>
\* two dated articles among two without a usable date
RawMixed == <<RawArt(DateStr(-1), Some(5)), RawArt(BadDate, Some(8)),
              RawArt(DateObj(-10), NULL), RawArt(NoDate, NULL)>>
RawFeeds == {RawUndated, RawMixed}

\* collect_competitor_news called on its own with the articles the adapter
\* returns
CollectRawTask(c, r, raw, days_back) ==
    /\ nexec < MaxTaskCalls
    /\ nexec' = nexec + 1
    /\ LET added == AddRows(mentions, CollectCompetitorNews(ReadArticles(raw), c, r))
       IN  /\ mentions' = added
           /\ presence' = AddRows(presence,
                             CalculateMarketPresence(added, c, r, days_back, now))
    /\ last' = [last EXCEPT !["search_competitor_news"] =
                    Called(c, Days(days_back), Returned(raw))]
    /\ UNCHANGED <<runs, links, comps, webcontent, insights, opportunities, feed, queue,
                   now, pc, locals>>

NextDates ==
    \/ \E c \in CompIds, raw \in RawFeeds, d \in Windows : CollectRawTask(c, 1, raw, d)
    \/ \E c \in CompIds, d \in Windows : MetricsTask(c, 1, d)

SpecDates == InitTasks /\ [][NextDates]_vars

(***************************************************************************)
(* Properties.                                                             *)
(***************************************************************************)
StepNames(p) == [i \in 1..Len(steps[p]) |-> <<steps[p][i].step, steps[p][i].cid>>]
TriadStep(k) ==
    IF k = 0 THEN "collect_news"
    ELSE IF k = 1 THEN "extract_web_content" ELSE "compute_presence"
\* the three steps of each competitor in link order, then the synthesis
ExpectedSteps(cs) ==
    [i \in 1..(3 * Len(cs) + 1) |->
        IF i = 3 * Len(cs) + 1 THEN <<"synthesize_insights", 0>>
        ELSE <<TriadStep((i - 1) % 3), cs[((i - 1) \div 3) + 1]>>]
InLoop(p) == pc[p] \in {"collect", "extract", "compute", "synth", "finish"}
Count(B, S) == Copies(B, S)

\* C1: whichever per-competitor steps raise, the steps an orchestrator has
\* invoked are at every moment the expected ones in the expected order, and
\* when it reaches the completion transition it has invoked all three steps
\* of every linked competitor and synthesize_insights.
C1_StepFailureContained ==
    \A p \in Procs :
        InLoop(p) =>
            /\ Len(steps[p]) <= 3 * Len(pcomps[p]) + 1
            /\ StepNames(p) = SubSeq(ExpectedSteps(pcomps[p]), 1, Len(steps[p]))
            /\ pc[p] = "finish" => StepNames(p) = ExpectedSteps(pcomps[p])

\* competitor 1's collect_news raised (no mention of its three articles is
\* stored), its extract_web_content still stored the pages, and the call went
\* on to the completion transition through all seven steps
C1_Witness ==
    \E p \in Procs :
        /\ pc[p] = "finish"
        /\ runs[1].exists /\ prun[p] = 1
        /\ outcome[p].failed
        /\ feed[1] = FeedThree
        /\ RowsFor(mentions, 1, 1) = {}
        /\ RowsFor(webcontent, 1, 1) # {}
        /\ Len(steps[p]) = 7

\* C2: a call that reaches the completion transition with the run in place
\* and no fault of the driver leaves the run completed with completed_at set,
\* whatever steps raised; and a run becomes failed only in a step in which
\* the driver of a call on that run faults.
C2_StepFailuresNeverFail ==
    [][ /\ \A p \in Procs :
             (pc[p] = "finish" /\ pc'[p] = "done" /\ ~outcome'[p].fault
                 /\ runs[prun[p]].exists)
             => /\ runs'[prun[p]].status = "completed"
                /\ runs'[prun[p]].completed_at # NULL
        /\ \A r \in RunIds :
             (runs'[r].status = "failed" /\ runs[r].status # "failed")
             => \E p \in Procs :
                    prun[p] = r /\ outcome'[p].fault /\ ~outcome[p].fault
      ]_vars

\* every one of the seven steps raised, and the run is completed
C2_Witness ==
    \E p \in Procs :
        /\ pc[p] = "done"
        /\ Len(steps[p]) = 7
        /\ outcome[p].failed /\ ~outcome[p].ok /\ ~outcome[p].fault
        /\ runs[prun[p]].exists
        /\ runs[prun[p]].status = "completed"
        /\ runs[prun[p]].completed_at # NULL

\* C3: once the status of a run is completed or failed, no operation changes
\* it.
C3_StatusTerminal ==
    [][ \A r \in RunIds :
          (runs[r].exists /\ runs'[r].exists
              /\ runs[r].status \in {"completed", "failed"})
          => runs'[r].status = runs[r].status
      ]_vars

\* C4: after a single call of an orchestrator on the pending run, each
\* (competitor, run) pair has at most one row of market_presence.
C4_OnePresenceRowPerPair ==
    (nexec = 1 /\ \E p \in Procs : pc[p] = "done")
    => \A c \in CompIds, r \in RunIds : Count(presence, RowsFor(presence, c, r)) <= 1

\* C5: synthesize_insights is invoked at most once in a call, as the step
\* after the three steps of every linked competitor and never earlier; no
\* step follows it; and the completion transition is reached only after it.
C5_SynthesisOnceAfterAll ==
    \A p \in Procs :
        LET n == Len(steps[p])
            k == 3 * Len(pcomps[p])
        IN  InLoop(p) =>
              /\ n <= k + 1
              /\ \A i \in 1..n : (steps[p][i].step = "synthesize_insights") <=> (i = k + 1)
              /\ pc[p] = "synth" => n = k
              /\ pc[p] = "finish" => n = k + 1

\* the synthesis is about to start: the six steps of the two competitors have
\* finished, some returned and some raised
C5_Witness ==
    \E p \in Procs :
        /\ pc[p] = "synth"
        /\ Len(steps[p]) = 6
        /\ outcome[p].ok /\ outcome[p].failed

\* C6: a call that ends after the in_progress transition with the run row
\* gone returns status failed.
C6_VanishedRunReportedFailed ==
    [][ \A p \in Procs :
          (InLoop(p) \/ pc[p] = "load") /\ pc'[p] = "done" /\ ~runs'[prun[p]].exists
          => result'[p].status = "failed"
      ]_vars

\* C7: a call for a run id without a row returns the not-found result in a
\* step that changes no run, no link and no row of the five fact tables, and a
\* call that returned it has invoked no step.
C7_NotFoundChangesNothing ==
    [][ \A p \in Procs :
          (pc[p] = "begin" /\ ~runs[prun[p]].exists /\ pc'[p] # "begin")
          => /\ pc'[p] = "done"
             /\ result'[p] = Ret("not_found")
             /\ steps'[p] = << >>
             /\ UNCHANGED <<runs, links, comps, tables>>
      ]_vars

\* the call for run 2, which has no row, returned not-found beside run 1
C7_Witness ==
    \E p \in Procs :
        /\ pc[p] = "done"
        /\ prun[p] = 2
        /\ result[p] = Ret("not_found")
        /\ runs[1].exists

AllFeedsEmpty == \A c \in CompIds : feed[c] = FeedEmpty
\* the call of p on run 1 returned through the completion transition, the
\* run row in place
Completed(p) ==
    /\ pc[p] = "done"
    /\ prun[p] = 1
    /\ runs[1].exists
    /\ result[p] = Ret("completed")
    /\ ~outcome[p].fault

\* C8 as stated: when the news provider answers every search with an empty
\* list, a call that ends without a fault of the driver leaves the run
\* completed with no mention, no presence row and no insight.
C8_EmptyFeedsNoInsights ==
    \A p \in Procs :
        (AllFeedsEmpty /\ Completed(p))
        => /\ runs[1].status = "completed"
           /\ RowsOf(mentions, 1) = {}
           /\ RowsOf(presence, 1) = {}
           /\ RowsOf(insights, 1) = {}

\* C8 as amended: when the news provider answers every search with an empty
\* list, the run never has a mention or a presence row, and a call that ends
\* without a fault of the driver leaves it completed.
C8_EmptyFeedsNoMentions ==
    AllFeedsEmpty =>
        /\ RowsOf(mentions, 1) = {}
        /\ RowsOf(presence, 1) = {}
        /\ \A p \in Procs : Completed(p) => runs[1].status = "completed"

\* the provider answered empty lists, no step raised, the run is completed and
\* holds the insights of the text provider's answer
C8_Witness ==
    \E p \in Procs :
        /\ AllFeedsEmpty /\ Completed(p)
        /\ Len(steps[p]) = 7 /\ ~outcome[p].failed
        /\ runs[1].status = "completed"
        /\ RowsOf(insights, 1) # {}

\* The end-to-end scenario: days_back = 7, three recent articles for
\* competitor 1, none for competitor 2, and the first call on the run has
\* returned with no step raised.
Scenario(p) ==
    /\ nexec = 1
    /\ Completed(p)
    /\ ~outcome[p].failed
    /\ runs[1].days_back = Days(7)
    /\ feed[1] = FeedThree
    /\ feed[2] = FeedEmpty

\* mention_count 3, sentiment_average 0.9 (9 tenths), visibility_score 6
ScenarioRow(x, trend) ==
    /\ x.mention_count = 3
    /\ x.sentiment_average = Some(<<9, 1>>)
    /\ x.visibility_score = 6
    /\ x.trend_direction = trend

\* C9 as stated: the scenario yields for competitor 1 a presence row with
\* mention_count 3, sentiment_average 0.9, visibility_score 6 and trend
\* "declining", and no row for competitor 2.
C9_ScenarioDeclining ==
    \A p \in Procs :
        Scenario(p) =>
            /\ \E x \in RowsFor(presence, 1, 1) : ScenarioRow(x, "declining")
            /\ RowsFor(presence, 2, 1) = {}

\* C9 as amended: the scenario yields presence rows for competitor 1, each
\* with mention_count 3, sentiment_average 0.9, visibility_score 6 and trend
\* "stable", and no row for competitor 2.
C9_ScenarioStable ==
    \A p \in Procs :
        Scenario(p) =>
            /\ RowsFor(presence, 1, 1) # {}
            /\ \A x \in RowsFor(presence, 1, 1) : ScenarioRow(x, "stable")
            /\ RowsFor(presence, 2, 1) = {}

C9_Witness ==
    \E p \in Procs :
        /\ Scenario(p)
        /\ Count(mentions, RowsFor(mentions, 1, 1)) = 3
        /\ RowsFor(presence, 1, 1) # {}

\* C10: every row of market_presence has trend "rising" when its
\* mention_count is 5 or more, "stable" when it is 2 to 4, and "declining"
\* when it is 1 or less.
C10_TrendThresholds ==
    \A x \in DOMAIN presence :
        /\ x.mention_count >= 5 => x.trend_direction = "rising"
        /\ (x.mention_count >= 2 /\ x.mention_count <= 4) => x.trend_direction = "stable"
        /\ x.mention_count <= 1 => x.trend_direction = "declining"

\* rows at the four boundaries are stored: 1 declining, 2 and 4 stable, 5 rising
C10_Witness ==
    /\ \E x \in DOMAIN presence : x.mention_count = 1 /\ x.trend_direction = "declining"
    /\ \E x \in DOMAIN presence : x.mention_count = 2 /\ x.trend_direction = "stable"
    /\ \E x \in DOMAIN presence : x.mention_count = 4 /\ x.trend_direction = "stable"
    /\ \E x \in DOMAIN presence : x.mention_count = 5 /\ x.trend_direction = "rising"

\* C11: every row of market_presence has visibility_score equal to the
\* smaller of 100 and twice its mention_count; the score never exceeds 100 and
\* a row with no fewer mentions than another has no smaller score.
C11_VisibilityCapped ==
    \A x \in DOMAIN presence :
        /\ x.visibility_score =
               IF 2 * x.mention_count <= 100 THEN 2 * x.mention_count ELSE 100
        /\ x.visibility_score <= 100
        /\ \A y \in DOMAIN presence :
               x.mention_count <= y.mention_count
               => x.visibility_score <= y.visibility_score

\* rows with 1, 2, 5, 50 and 1000 mentions are stored, scored 2, 4, 10, 100, 100
C11_Witness ==
    /\ \E x \in DOMAIN presence : x.mention_count = 1 /\ x.visibility_score = 2
    /\ \E x \in DOMAIN presence : x.mention_count = 2 /\ x.visibility_score = 4
    /\ \E x \in DOMAIN presence : x.mention_count = 5 /\ x.visibility_score = 10
    /\ \E x \in DOMAIN presence : x.mention_count = 50 /\ x.visibility_score = 100
    /\ \E x \in DOMAIN presence : x.mention_count = 1000 /\ x.visibility_score = 100

\* the stored mentions of a row's competitor and run dated inside its period
MentionsInPeriod(x) ==
    {m \in RowsFor(mentions, x.competitor_id, x.analysis_run_id) :
        /\ m.published_date # NULL
        /\ m.published_date[1] >= x.period_start
        /\ m.published_date[1] <= x.period_end}

\* C12: over mentions that do not change, every row of market_presence has a
\* null sentiment_average exactly when no mention inside its period is scored,
\* and otherwise the sum of the scores divided by the number of scored
\* mentions (n / d with n * number = d * sum).
C12_SentimentMean ==
    \A x \in DOMAIN presence :
        LET scored == {m \in MentionsInPeriod(x) : m.sentiment_score # NULL}
            number == Copies(mentions, scored)
            total == SentimentSum(mentions, scored)
        IN  /\ (x.sentiment_average = NULL) <=> (scored = {})
            /\ scored # {} =>
                  /\ x.sentiment_average[1][2] > 0
                  /\ x.sentiment_average[1][1] * number = x.sentiment_average[1][2] * total

\* a row over the scores 0.5, null, -0.5, null has the average 0.0, and a row
\* over two unscored mentions has none
C12_Witness ==
    /\ \E x \in DOMAIN presence :
          /\ x.mention_count = 4
          /\ Copies(mentions, {m \in MentionsInPeriod(x) : m.sentiment_score # NULL}) = 2
          /\ x.sentiment_average = Some(<<0, 1>>)
    /\ \E x \in DOMAIN presence :
          /\ x.mention_count = 2
          /\ {m \in MentionsInPeriod(x) : m.sentiment_score # NULL} = {}
          /\ x.sentiment_average = NULL

\* each competitor has a mention inside the narrowest window
EveryCallFindsMentions ==
    \A c \in CompIds :
        \E m \in RowsFor(mentions, c, 1) :
            /\ m.published_date # NULL
            /\ m.published_date[1] >= now - 1
            /\ m.published_date[1] <= now

\* C13: over mentions that do not change, the rows of market_presence for one
\* competitor, run and period agree on mention_count, sentiment_average,
\* visibility_score and trend_direction, and when every call finds mentions
\* there are as many rows as calculate_market_metrics was called: each call
\* appended one, none was replaced.
C13_RecomputeAppends ==
    /\ \A x, y \in DOMAIN presence :
          (/\ x.competitor_id = y.competitor_id
           /\ x.analysis_run_id = y.analysis_run_id
           /\ x.period_start = y.period_start
           /\ x.period_end = y.period_end)
          => /\ x.mention_count = y.mention_count
             /\ x.sentiment_average = y.sentiment_average
             /\ x.visibility_score = y.visibility_score
             /\ x.trend_direction = y.trend_direction
    /\ EveryCallFindsMentions => BagCardinality(presence) = nexec

\* two calls for the same competitor and window left two copies of one row
C13_Witness ==
    /\ EveryCallFindsMentions
    /\ nexec = 2
    /\ \E x \in DOMAIN presence : presence[x] = 2

\* C14: a call of generate_insights whose provider answers with something
\* other than a JSON object returns without raising and adds no row to
\* insights or differentiation_opportunities.
C14_MalformedContained ==
    [][ LET g == last'["generate_insights"]
        IN  (g # last["generate_insights"] /\ g.given.kind # "object")
            => /\ ~g.raised
               /\ insights' = insights
               /\ opportunities' = opportunities
      ]_vars

\* C16: neither operation of the source adapter raises; when the provider
\* fails (no client, or the call raises) search_competitor_news returns the
\* empty list and get_web_content a record with empty content and the error
\* marker.
C16_AdapterNeverRaises ==
    LET s == last["search_competitor_news"]
        w == last["get_web_content"]
    IN  /\ s.called =>
              /\ ~s.raised
              /\ s.given.kind \in {"no_client", "error"} => s.value = << >>
        /\ w.called =>
              /\ ~w.raised
              /\ w.given \in {"no_client", "error"}
                 => (w.value.content = "" /\ w.value.error)

\* the provider failed under both operations: the search returned the empty
\* list, the page fetch the empty record with the error marker
C16_Witness ==
    /\ last["search_competitor_news"].called
    /\ last["search_competitor_news"].given.kind = "error"
    /\ last["search_competitor_news"].value = << >>
    /\ last["get_web_content"].called
    /\ last["get_web_content"].given = "error"
    /\ last["get_web_content"].value = Page("", TRUE)

\* C19: a call of generate_insights that parsed the provider's answer into an
\* object adds as many rows to insights as the "insights" array has elements
\* and as many to differentiation_opportunities as the other array has, and
\* no stored row is without a title.
C19_EveryElementStored ==
    [][ LET g == last'["generate_insights"]
        IN  (g # last["generate_insights"] /\ g.given.kind = "object"
               /\ CallsProvider(g.arg))
            => /\ BagCardinality(insights') =
                     BagCardinality(insights) + Len(g.given.insights)
               /\ BagCardinality(opportunities') =
                     BagCardinality(opportunities) + Len(g.given.opps)
               /\ \A x \in DOMAIN insights' : x.title # NULL
               /\ \A x \in DOMAIN opportunities' : x.title # NULL
      ]_vars

\* C17: the extract_web_content step of a linked competitor that has a row
\* and no website URL adds no row to web_content and is followed by the
\* competitor's compute_presence step, which is the next step the call logs;
\* no row of web_content ever belongs to such a competitor.
C17_NoUrlNoPages ==
    [][ \A p \in Procs :
          /\ (pc[p] = "extract" /\ pc'[p] # "extract"
                /\ comps[Cid(p)].exists /\ ~comps[Cid(p)].has_url)
             => /\ webcontent' = webcontent
                /\ \A r \in RunIds : RowsFor(webcontent', Cid(p), r) = {}
                /\ pc'[p] = "compute"
                /\ Cid(p)' = Cid(p)
          /\ (pc[p] = "compute" /\ pc'[p] # "compute")
             => /\ Len(steps'[p]) = Len(steps[p]) + 1
                /\ steps'[p][Len(steps'[p])].step = "compute_presence"
                /\ steps'[p][Len(steps'[p])].cid = Cid(p)
      ]_vars

\* a call in which no step raised has returned: competitor 1 has its pages,
\* competitor 2, without a URL, has none, and its presence was computed
C17_Witness ==
    \E p \in Procs :
        /\ Completed(p)
        /\ outcome[p].ok /\ ~outcome[p].failed
        /\ Len(steps[p]) = 7
        /\ ~comps[2].has_url
        /\ RowsFor(webcontent, 1, 1) # {}
        /\ RowsFor(webcontent, 2, 1) = {}
        /\ RowsFor(presence, 2, 1) # {}

\* C18: during the first call on a run, a competitor has a row of
\* market_presence only after the call has invoked the competitor's
\* extract_web_content step.
C18_PresenceAfterExtract ==
    \A p \in Procs :
        (nexec = 1 /\ InLoop(p))
        => \A c \in CompIds :
              RowsFor(presence, c, prun[p]) # {}
              => \E i \in 1..Len(steps[p]) :
                    /\ steps[p][i].step = "extract_web_content"
                    /\ steps[p][i].cid = c

\* C20: every collect_news and compute_presence step of a call is invoked
\* with the window of the run's parameters: the number under days_back, and
\* 30 when days_back is left out or is not a number.
C20_WindowIsDaysBack ==
    \A p \in Procs :
        (InLoop(p) /\ runs[prun[p]].exists)
        => LET param == runs[prun[p]].days_back
               window == IF param.k = "int" THEN param.v ELSE DefaultDaysBack
           IN  \A i \in 1..Len(steps[p]) :
                  steps[p][i].step \in {"collect_news", "compute_presence"}
                  => steps[p][i].days = Days(window)

\* C15: every run that start_analysis has created, pending, is eventually
\* the argument of a call of run_full_analysis and so leaves the pending
\* status.
C15_PendingRunExecuted ==
    \A r \in RunIds :
        (runs[r].exists /\ runs[r].status = "pending")
        ~> (prun["celery"] = r /\ pc["celery"] # "idle" /\ runs[r].status # "pending")

\* C21: a call on a run that is in progress is not turned away: it sets
\* started_at to the time of the call and goes on to the steps; every collect
\* step that returns adds one mention per article of the provider's answer
\* beside the mentions already stored, none of which is replaced or removed;
\* and the call reaches the completion transition having invoked every step.
C21_InProgressRunReexecuted ==
    [][ \A p \in Procs :
          /\ (pc[p] = "begin" /\ pc'[p] # "begin"
                /\ runs[prun[p]].status = "in_progress")
             => /\ pc'[p] = "load"
                /\ runs'[prun[p]].status = "in_progress"
                /\ runs'[prun[p]].started_at = Some(now)
          /\ (pc[p] = "collect" /\ pc'[p] # "collect" /\ ~outcome'[p].failed)
             => /\ \A x \in DOMAIN mentions : x \in DOMAIN mentions'
                /\ \A x \in DOMAIN mentions' :
                      mentions'[x] =
                          (IF x \in DOMAIN mentions THEN mentions[x] ELSE 0)
                          + Cardinality({i \in 1..Len(feed[Cid(p)]) :
                                MentionOf(feed[Cid(p)][i], Cid(p), prun[p]) = x})
          /\ (pc[p] # "finish" /\ pc'[p] = "finish")
             => StepNames(p)' = ExpectedSteps(pcomps[p])
      ]_vars

\* two calls on run 1 are at the completion transition together, no step of
\* either raised: the first collected on day 0, the second set started_at
\* again on day 1, and every article of each competitor is stored twice
C21_Witness ==
    /\ \A p \in Procs :
          pc[p] = "finish" /\ prun[p] = 1 /\ Len(steps[p]) = 7 /\ ~outcome[p].failed
    /\ runs[1].status = "in_progress"
    /\ runs[1].started_at = Some(1)
    /\ \E x \in RowsFor(presence, 1, 1) : x.period_end = 0
    /\ \A c \in CompIds :
          /\ Count(mentions, RowsFor(mentions, c, 1)) = 2 * Len(feed[c])
          /\ \A x \in RowsFor(mentions, c, 1) : mentions[x] = 2

\* C22: the links of a run that exists are never changed: no operation,
\* deleting a linked competitor included, removes a link of the run or
\* changes which competitors it is linked to.
C22_LinksImmutable ==
    [][ \A r \in RunIds :
          (runs[r].exists /\ runs'[r].exists) => links'[r] = links[r]
      ]_vars

\* C23: a step in which an orchestrator invokes collect_news,
\* extract_web_content, compute_presence or synthesize_insights changes no
\* run row, whether the step returns or raises and is rolled back; and the
\* status, started_at or completed_at of a run that stays in place changes
\* only in a step of an orchestrator called on that run that is at its start,
\* its completion, or a fault of its driver.
C23_StepsLeaveRunAlone ==
    [][ /\ \A p \in Procs : Len(steps'[p]) > Len(steps[p]) => runs' = runs
        /\ \A r \in RunIds :
              (/\ runs[r].exists /\ runs'[r].exists
               /\ <<runs'[r].status, runs'[r].started_at, runs'[r].completed_at>>
                     # <<runs[r].status, runs[r].started_at, runs[r].completed_at>>)
              => \E p \in Procs :
                    /\ prun[p] = r
                    /\ pc[p] \in {"begin", "load", "finish"}
                    /\ pc'[p] \in {"load", "done"}
      ]_vars

\* a call has invoked all seven steps, some returned and some raised, and the
\* run is as the start of the call left it: in progress, started, not completed
C23_Witness ==
    \E p \in Procs :
        /\ pc[p] = "finish"
        /\ Len(steps[p]) = 7
        /\ outcome[p].ok /\ outcome[p].failed /\ ~outcome[p].fault
        /\ nexec = 1
        /\ runs[prun[p]].exists
        /\ runs[prun[p]].status = "in_progress"
        /\ runs[prun[p]].started_at = Some(now)
        /\ runs[prun[p]].completed_at = NULL

\* C24: in every state, a run has completed_at set exactly when its status is
\* completed, and has no started_at exactly when its status is pending.
C24_TimestampsMatchStatus ==
    \A r \in RunIds :
        runs[r].exists =>
            /\ (runs[r].completed_at # NULL) <=> (runs[r].status = "completed")
            /\ (runs[r].started_at = NULL) <=> (runs[r].status = "pending")

\* C25: when a call of either orchestrator returns and the run row is in
\* place, the status in the returned value is the status of the row.
C25_ReturnsPersistedStatus ==
    [][ \A p \in Procs :
          (pc[p] # "done" /\ pc'[p] = "done" /\ runs'[prun[p]].exists)
          => result'[p].status = runs'[prun[p]].status
      ]_vars

\* C26: when two calls on one run interleave, no step in which the run is
\* completed before and after adds a row of the run to news_mentions,
\* web_content, market_presence, insights or differentiation_opportunities.
C26_NoRowsOnceCompleted ==
    [][ \A r \in RunIds :
          (runs[r].status = "completed" /\ runs'[r].status = "completed")
          => /\ Count(mentions', RowsOf(mentions', r)) <= Count(mentions, RowsOf(mentions, r))
             /\ Count(webcontent', RowsOf(webcontent', r))
                    <= Count(webcontent, RowsOf(webcontent, r))
             /\ Count(presence', RowsOf(presence', r)) <= Count(presence, RowsOf(presence, r))
             /\ Count(insights', RowsOf(insights', r)) <= Count(insights, RowsOf(insights, r))
             /\ Count(opportunities', RowsOf(opportunities', r))
                    <= Count(opportunities, RowsOf(opportunities, r))
      ]_vars

\* the step p has just invoked
LastStep(p) == steps[p][Len(steps[p])]

\* C27: a step that raises leaves the five fact tables exactly as they were
\* when it began, the rows of earlier steps included.  A step is known to have
\* raised when it is the first of its call to raise, or when it is a
\* collect_news or compute_presence step whose window is not a number.
C27_FailedStepPersistsNothing ==
    [][ \A p \in Procs :
          (/\ Len(steps'[p]) > Len(steps[p])
           /\ \/ outcome'[p].failed /\ ~outcome[p].failed
              \/ /\ LastStep(p)'.step \in {"collect_news", "compute_presence"}
                 /\ ~IsNumber(LastStep(p)'.days))
          => tables' = tables
      ]_vars

\* the in-process runner on a run whose days_back is null: both collect steps
\* raised after adding the mentions of the provider's articles, none of which
\* is stored, and the pages that the extract step committed are in place
C27_Witness ==
    /\ pc["sync"] = "finish"
    /\ prun["sync"] = 1
    /\ nexec = 1
    /\ runs[1].exists
    /\ runs[1].days_back = NullDays
    /\ feed[1] = FeedThree
    /\ outcome["sync"].failed /\ outcome["sync"].ok
    /\ mentions = EmptyBag
    /\ Count(webcontent, RowsFor(webcontent, 1, 1)) = Len(PAGE_TYPES)

\* the rows of run r in a table, the run id put aside
Relabel(B, r) ==
    [y \in {[x EXCEPT !.analysis_run_id = 0] : x \in RowsOf(B, r)} |->
        B[[y EXCEPT !.analysis_run_id = r]]]

\* C28: when the in-process runner has returned from run 1 and the Celery
\* orchestrator from run 2, the two runs having the same parameters, links
\* and provider answers, both have invoked the same steps with the same
\* windows in the same order, the rows of the two runs are the same in every
\* table, and the two runs have the same status.
C28_OrchestratorsAgree ==
    (pc["sync"] = "done" /\ pc["celery"] = "done")
    => /\ steps["sync"] = steps["celery"]
       /\ Relabel(mentions, 1) = Relabel(mentions, 2)
       /\ Relabel(webcontent, 1) = Relabel(webcontent, 2)
       /\ Relabel(presence, 1) = Relabel(presence, 2)
       /\ Relabel(insights, 1) = Relabel(insights, 2)
       /\ Relabel(opportunities, 1) = Relabel(opportunities, 2)
       /\ runs[1].status = runs[2].status
       /\ result["sync"] = result["celery"]

Undated(B, c) == {m \in RowsFor(B, c, 1) : m.published_date = NULL}
\* the articles of a provider's answer that have no usable date
Unusable(raw) == {i \in 1..Len(raw) : raw[i].pub.k \in {"none", "text"}}

Linked(c, r) == \E i \in 1..Len(links[r]) : links[r][i] = c

\* C30: in every state, each row of news_mentions, web_content and
\* market_presence belongs to a competitor that has a row and is linked to the
\* row's run.
C30_RowsOfLinkedCompetitors ==
    \A x \in DOMAIN mentions \cup DOMAIN webcontent \cup DOMAIN presence :
        /\ comps[x.competitor_id].exists
        /\ Linked(x.competitor_id, x.analysis_run_id)
====
